---- MODULE Spec2Model ----
(***************************************************************************)
(* Model of alphabeta.py: the Robin-Hood transposition table               *)
(* (TT49x8RobinHood), the board codec (moveseq_to_board_42,                *)
(* moveseq_to_board49, board49_to_board42), the oracle handle (WdlServer)  *)
(* and the alpha-beta driver (search, __main__).                           *)
(*                                                                         *)
(* TLC integers are 32-bit, so the 64-bit slot word is modelled at a       *)
(* reduced key width: the key field holds 7 bits per board column plus     *)
(* one bit for the "+1" (7*7+1 = 50 in the source), and the model board    *)
(* has Width columns.  The hash is an arbitrary function of the key,       *)
(* drawn in Init.                                                          *)
(***************************************************************************)
EXTENDS Integers, Sequences, FiniteSets, TLC

VARIABLES
    tt,        \* TRANSPOSITION_TABLE: [cap, slots, size]
    hash64,    \* the hash function: key_plus -> hash value
    last,      \* history: key -> value of the most recent set(key, .), or None
    call,      \* history: what the most recent set call found and how it ended
    moveseq,   \* codec: the move sequence, a string as a sequence of characters
    enc,       \* codec: the outcome of moveseq_to_board49(moveseq)
    sim,       \* codec: the outcome of moveseq_to_board_42(moveseq)
    dec,       \* codec: the outcome of board49_to_board42 on enc's code
    oracle,    \* the WDL oracle behind srv: the parameters of its game
    stack,     \* the active calls of search, innermost last
    ret,       \* the value the last finished call of search returned
    err,       \* the exception that ended the run, "none" while it runs
    top,       \* history: the top-level calls of search made so far
    main,      \* the position of the program, from its import to its end
    proc,      \* srv.proc: the oracle subprocess and the pipe to it
    rx         \* the line query read last, and what query did with it

vars == <<tt, hash64, last, call, moveseq, enc, sim, dec,
          oracle, stack, ret, err, top, main, proc, rx>>

ttVars == <<tt, hash64, last, call>>
codecVars == <<moveseq, enc, sim, dec>>
searchVars == <<oracle, stack, ret, err, top>>
runVars == <<main, proc, rx>>

\* a step of one part of the program leaves the other parts alone
OnlyTT == UNCHANGED <<codecVars, searchVars, runVars>>
OnlyCodec == UNCHANGED <<ttVars, searchVars, runVars>>
OnlySearch == UNCHANGED <<last, call, codecVars, oracle, hash64, top, main, proc>>
OnlyRun == UNCHANGED <<last, call, codecVars, oracle, hash64, top>>

----------------------------------------------------------------------------
(* Bounds *)

\* number of board columns (width), and so the width of the key field
Width == 2
\* number of board rows (height)
Height == 3
\* capacity of the table in the table specification
Cap == 4
\* longest move sequence handed to the codec
MaxLen == 5
\* number of top-level calls of search on one table
MaxCalls == 2

----------------------------------------------------------------------------
(* Bit operations on non-negative integers *)

Pow2(n) == 2 ^ n

ShiftLeft(x, n) == x * Pow2(n)

ShiftRight(x, n) == x \div Pow2(n)

\* a & mask, for a mask of the form (1 << n) - 1: every mask of the source is
\* one (KEY_MASK, mask7, (1 << h) - 1, 1), and a & mask is then a mod 2^n
BitAnd(a, mask) == a % (mask + 1)

RECURSIVE BitOr(_, _)
BitOr(a, b) ==
    IF a = 0 THEN b
    ELSE IF b = 0 THEN a
    ELSE (IF a % 2 = 1 \/ b % 2 = 1 THEN 1 ELSE 0) + 2 * BitOr(a \div 2, b \div 2)

----------------------------------------------------------------------------
(* TT49x8RobinHood *)

None == -1

VAL_BITS == 14

KEY_BITS == 7 * Width + 1
KEY_MASK == ShiftLeft(1, KEY_BITS) - 1
VAL_SHIFT == KEY_BITS
KEY_MAX == ShiftLeft(1, KEY_BITS - 1) - 1

\* __init__
NewTable(capacity) ==
    [cap |-> capacity, slots |-> [i \in {} |-> 0], size |-> 0]

\* self.slots[i]: slots keeps the non-zero slots of the array, every other
\* slot holds the 0 it was created with
Slot(t, i) == IF i \in DOMAIN t.slots THEN t.slots[i] ELSE 0

\* self.slots[i] = e
Store(t, i, e) == [t EXCEPT !.slots = (i :> e) @@ t.slots]

\* the hash is an input of the model: given key by key (hash64.of), or
\* for the board keys of search by a multiplier (hash64.mul)
_hash64(x) ==
    IF "of" \in DOMAIN hash64 THEN hash64.of[x] ELSE x * hash64.mul

_home(t, key_plus) == _hash64(key_plus) % t.cap

_dist(t, idx, home) ==
    IF idx >= home THEN idx - home ELSE idx + t.cap - home

\* a probe that steps over every other slot
AdvanceByTwo(t, i) == (i + 2) % t.cap

\* i += 1, wrapping at the capacity
Advance(t, i) == IF i + 1 = t.cap THEN 0 ELSE i + 1

\* lines 74-75 of get: the incumbent's key field is the probed key
GetKeyMatchUnverified(e, kp) == BitAnd(e, 1) = BitAnd(kp, 1)
GetKeyMatch(e, kp) == BitAnd(e, KEY_MASK) = kp

\* line 81 of get: the Robin-Hood early exit
GetEarlyExitOnTie(inc_dib, dib) == inc_dib <= dib
GetEarlyExit(inc_dib, dib) == inc_dib < dib

\* the loop of get: i is the probed slot, dib the probe distance
RECURSIVE GetLoop(_, _, _, _)
GetLoop(t, kp, i, dib) ==
    IF ~(dib < t.cap) THEN None
    ELSE LET e == Slot(t, i) IN
         IF e = 0 THEN None
         ELSE IF GetKeyMatch(e, kp) THEN ShiftRight(e, VAL_SHIFT)
         ELSE LET ekp == BitAnd(e, KEY_MASK)
                  inc_home == _home(t, ekp)
                  inc_dib == _dist(t, i, inc_home)
              IN IF GetEarlyExit(inc_dib, dib) THEN None
                 ELSE GetLoop(t, kp, Advance(t, i), dib + 1)

\* the slots the loop of get visits: one for each slots[i] it reads
RECURSIVE GetVisits(_, _, _, _)
GetVisits(t, kp, i, dib) ==
    IF ~(dib < t.cap) THEN 0
    ELSE LET e == Slot(t, i) IN
         IF e = 0 \/ GetKeyMatch(e, kp) THEN 1
         ELSE LET ekp == BitAnd(e, KEY_MASK)
                  inc_home == _home(t, ekp)
                  inc_dib == _dist(t, i, inc_home)
              IN IF GetEarlyExit(inc_dib, dib) THEN 1
                 ELSE 1 + GetVisits(t, kp, Advance(t, i), dib + 1)

KeyInRange(key) == ~(key < 0 \/ key > KEY_MAX)

ValueInRange(value) == ~(value < 0 \/ value >= ShiftLeft(1, VAL_BITS))

\* get, for a key in range (a key out of range raises ValueError, line 61)
Get(t, key) ==
    LET kp == key + 1 IN GetLoop(t, kp, _home(t, kp), 0)

\* lines 114-115 of set: the incumbent's key field is the key being set
SetKeyMatchUnmasked(e, kp) == e = kp
SetKeyMatch(e, kp) == BitAnd(e, KEY_MASK) = kp

\* line 125 of set: the Robin-Hood rule, steal from the rich
SetSteals(inc_dib, dib) == inc_dib < dib

\* the loop of set: entry is the carried entry, steps counts the slots visited,
\* swaps the Robin-Hood swaps made.  exit tells how the call ended: "inserted"
\* (line 112), "updated" (line 118) or "loop_end" (the while condition failed
\* and the function returned at its end, line 135); raised is the error raised,
\* "none" when the call returned normally.
RECURSIVE SetLoop(_, _, _, _, _, _, _)
SetLoop(t, kp, entry, i, dib, steps, swaps) ==
    IF ~(dib < t.cap)
    THEN [t |-> t, raised |-> "none", exit |-> "loop_end",
          steps |-> steps, swaps |-> swaps]
    ELSE LET e == Slot(t, i) IN
         IF e = 0
         THEN [t |-> [Store(t, i, entry) EXCEPT !.size = t.size + 1],
               raised |-> "none", exit |-> "inserted",
               steps |-> steps + 1, swaps |-> swaps]
         ELSE IF SetKeyMatch(e, kp)
         THEN [t |-> Store(t, i, entry),
               raised |-> "none", exit |-> "updated",
               steps |-> steps + 1, swaps |-> swaps]
         ELSE LET ekp == BitAnd(e, KEY_MASK)
                  inc_home == _home(t, ekp)
                  inc_dib == _dist(t, i, inc_home)
              IN IF SetSteals(inc_dib, dib)
                 THEN SetLoop(Store(t, i, entry), kp, e,
                              Advance(t, i), inc_dib + 1, steps + 1, swaps + 1)
                 ELSE SetLoop(t, kp, entry, Advance(t, i), dib + 1,
                              steps + 1, swaps)

Set(t, key, value) ==
    IF ~KeyInRange(key) \/ ~ValueInRange(value)
    THEN [t |-> t, raised |-> "ValueError", exit |-> "raise", steps |-> 0, swaps |-> 0]
    ELSE LET kp == key + 1
             entry == BitOr(kp, ShiftLeft(value, VAL_SHIFT))
         IN SetLoop(t, kp, entry, _home(t, kp), 0, 0, 0)

----------------------------------------------------------------------------
(* The table on its own: any sequence of set calls, under any hash.        *)
(* SpecTT has as many keys as slots, so no call finds the table full;      *)
(* SpecTTFull has one slot less, so the table fills and a new key arrives. *)

TTKeys == 0 .. Cap - 1
TTBadKeys == {-1, KEY_MAX + 1}
TTVals == {1, 2}

Occupied(t) == {i \in 0 .. t.cap - 1 : Slot(t, i) # 0}
IsFull(t) == Occupied(t) = 0 .. t.cap - 1
Present(t, key) == \E i \in Occupied(t) : BitAnd(t.slots[i], KEY_MASK) = key + 1
KeysSet == {k \in DOMAIN last : last[k] # None}

\* what a set call found: "out_of_range" arguments, the key "present", a new
\* key and "room" for it, or a new key and the table "full"
CallCase(t, key) ==
    IF ~KeyInRange(key) THEN "out_of_range"
    ELSE IF Present(t, key) THEN "present"
    ELSE IF IsFull(t) THEN "full"
    ELSE "room"

NoCall ==
    [case |-> "none", raised |-> "none", exit |-> "none", swapped |-> FALSE,
     steps |-> 0]

\* The table is a ring and the code reads a key only through its hash and by
\* equality, so every assignment of homes is, up to a rotation of the slots and
\* a renaming of the keys, one with key 0 at home 0 and the homes in key order.
Hashes(capacity) ==
    {[of |-> h] : h \in
        {g \in [{k + 1 : k \in TTKeys} -> 0 .. capacity - 1] :
            /\ g[1] = 0
            /\ \A k \in TTKeys \ {0} : g[k] <= g[k + 1]}}

InitTable(capacity) ==
    /\ tt = NewTable(capacity)
    /\ hash64 \in Hashes(capacity)
    /\ last = [k \in TTKeys |-> None]
    /\ call = NoCall

SetCall(key, value) ==
    \E r \in {Set(tt, key, value)} :
        /\ tt' = r.t
        /\ last' = IF r.raised = "none" THEN [last EXCEPT ![key] = value] ELSE last
        /\ call' = [case |-> CallCase(tt, key), raised |-> r.raised,
                    exit |-> r.exit, swapped |-> r.swaps > 0,
                    steps |-> r.steps]
        /\ UNCHANGED hash64

SetGood ==
    /\ \E key \in TTKeys, value \in TTVals : SetCall(key, value)
    /\ OnlyTT

SetOutOfRange ==
    /\ \E key \in TTBadKeys, value \in TTVals : SetCall(key, value)
    /\ OnlyTT

NextTT == SetGood \/ SetOutOfRange

InitTT == InitTable(Cap)

InitTTFull == InitTable(Cap - 1)

----------------------------------------------------------------------------
(* Claims about the table *)

\* C1: while fewer distinct keys than slots have been set, get(k) on every key
\* that has been set returns the value of the most recent set(k, .), under
\* every hash and also after later insertions displaced entries by swaps.
C1_GetReturnsLastSet ==
    Cardinality(KeysSet) < tt.cap =>
        \A k \in KeysSet : Get(tt, k) = last[k]

\* a set call has just displaced an entry by a Robin-Hood swap, fewer keys
\* than slots are in the table, and the displaced keys are still found
C1_Witness ==
    /\ Cardinality(KeysSet) < tt.cap
    /\ call.swapped
    /\ \A k \in KeysSet : Get(tt, k) = last[k]

\* C2: get on a key that was never passed to set returns None, in every
\* table state any sequence of set calls reaches (full tables included).
C2_NeverInsertedAbsent ==
    \A k \in TTKeys \ KeysSet : Get(tt, k) = None

\* the table is full and a key was never set: its lookup passes occupied
\* slots only and ends by the early exit or by the capacity bound
C2_Witness ==
    /\ IsFull(tt)
    /\ \E k \in TTKeys \ KeysSet : Get(tt, k) = None

\* C3: a set call with a key not in the table, made while every slot is
\* occupied, fails with an error instead of returning normally.
C3_FullTableSetRaises ==
    call.case = "full" => call.raised # "none"

\* C4: entries are never removed: get(k) returns a value for every key that
\* set has returned for, after any further set calls.
C4_NeverRemoved ==
    \A k \in KeysSet : Get(tt, k) # None

\* C5: size is the number of distinct keys set, which is the number of
\* non-empty slots, and no key occupies two slots (no call finds the table
\* full under SpecTT); so a set on a key already present leaves size unchanged.
C5_SizeCountsKeys ==
    /\ tt.size = Cardinality(KeysSet)
    /\ Cardinality(Occupied(tt)) = tt.size
    /\ \A i, j \in Occupied(tt) :
          BitAnd(tt.slots[i], KEY_MASK) = BitAnd(tt.slots[j], KEY_MASK) => i = j
    /\ \A k \in KeysSet : Present(tt, k)

\* a set on a key already present has just updated it in place, with
\* several keys in the table
C5_Witness ==
    /\ call.case = "present"
    /\ call.exit = "updated"
    /\ tt.size >= 2
    /\ tt.size = Cardinality(KeysSet)

\* the slots on the wrap-aware probe path from slot h up to slot i
ProbePath(t, h, i) == {(h + d) % t.cap : d \in 0 .. ((i + t.cap - h) % t.cap)}

\* the home slot of the entry stored in slot i
HomeOfSlot(t, i) == _home(t, BitAnd(Slot(t, i), KEY_MASK))

\* C12: after any sequence of set calls that never found the table full,
\* under any hash, no empty slot lies on the probe path from the home of the
\* entry stored in an occupied slot i up to i.
C12_RobinHoodOrdering ==
    \A i \in Occupied(tt) :
        \A j \in ProbePath(tt, HomeOfSlot(tt, i), i) : Slot(tt, j) # 0

\* a set call has swapped entries, an entry lies away from its home and a
\* slot of the table is still empty
C12_Witness ==
    /\ call.swapped
    /\ ~IsFull(tt)
    /\ \E i \in Occupied(tt) : HomeOfSlot(tt, i) # i
    /\ C12_RobinHoodOrdering

\* C19: every set call has visited at most capacity slots when it returns,
\* and a get call of any key visits at most capacity slots, whatever the
\* table holds, a full table and a new key included.
C19_VisitsAtMostCapacity ==
    /\ call.steps <= tt.cap
    /\ \A key \in TTKeys :
          GetVisits(tt, key + 1, _home(tt, key + 1), 0) <= tt.cap

----------------------------------------------------------------------------
(* Board codec.  A string is a sequence of characters, a character its code *)
(* point; a call's outcome is [raised, msg, value].                         *)

Ord0 == 48
Ord9 == 57

Returned(v) == [raised |-> "none", msg |-> "", value |-> v]
Raised(m, v) == [raised |-> "ValueError", msg |-> m, value |-> v]

\* "0" <= ch <= "9"
IsDigitChar(ch) == Ord0 <= ch /\ ch <= Ord9

\* 0 <= col < width
ColInRange(col, width) == 0 <= col /\ col < width

EmptyBoard(width, height) ==
    [r \in 0 .. height - 1 |-> [c \in 0 .. width - 1 |-> "."]]

\* "".join("".join(board[r]) for r in range(height))
JoinBoard(board, width, height) ==
    [n \in 1 .. width * height |-> board[(n - 1) \div width][(n - 1) % width]]

\* the loop of moveseq_to_board_42; ply counts from 0
RECURSIVE Board42Loop(_, _, _, _, _, _)
Board42Loop(ms, ply, board, heights, width, height) ==
    IF ply = Len(ms) THEN Returned(JoinBoard(board, width, height))
    ELSE LET ch == ms[ply + 1] IN
         IF ~IsDigitChar(ch) THEN Raised("Invalid move character", <<>>)
         ELSE LET col == ch - Ord0 IN
              IF ~ColInRange(col, width) THEN Raised("Move out of range", <<>>)
              ELSE IF heights[col] >= height
              THEN Raised("Illegal move: column is full", <<>>)
              ELSE LET row_from_bottom == heights[col]
                       row == height - 1 - row_from_bottom
                       stone == IF ply % 2 = 0 THEN "x" ELSE "o"
                   IN Board42Loop(ms, ply + 1,
                                  [board EXCEPT ![row][col] = stone],
                                  [heights EXCEPT ![col] = heights[col] + 1],
                                  width, height)

moveseq_to_board_42(ms, width, height) ==
    Board42Loop(ms, 0, EmptyBoard(width, height),
                [c \in 0 .. width - 1 |-> 0], width, height)

\* line 334 of moveseq_to_board49: the column is full
ColumnFullOffByOne(h, height) == h > height
ColumnFullUnchecked(h, height) == FALSE
ColumnFull(h, height) == h >= height

\* the first loop of moveseq_to_board49 (lines 326-341)
RECURSIVE Board49Loop(_, _, _, _, _, _)
Board49Loop(ms, ply, heights, patterns, width, height) ==
    IF ply = Len(ms) THEN Returned([heights |-> heights, patterns |-> patterns])
    ELSE LET ch == ms[ply + 1] IN
         IF ~IsDigitChar(ch) THEN Raised("Invalid move character", None)
         ELSE LET col == ch - Ord0 IN
              IF ~ColInRange(col, width) THEN Raised("Move out of range", None)
              ELSE LET h == heights[col] IN
                   IF ColumnFull(h, height)
                   THEN Raised("Illegal move: column is full", None)
                   ELSE Board49Loop(ms, ply + 1,
                            [heights EXCEPT ![col] = h + 1],
                            IF BitAnd(ply, 1) = 1
                            THEN [patterns EXCEPT
                                    ![col] = BitOr(patterns[col], ShiftLeft(1, h))]
                            ELSE patterns,
                            width, height)

\* the pattern alone, without the height
ColCodePatternOnly(h, pattern) == pattern

\* line 346: col_code = ((1 << h) - 1) + pattern
ColCode(h, pattern) == (ShiftLeft(1, h) - 1) + pattern

\* the second loop of moveseq_to_board49 (lines 343-348)
RECURSIVE PackColumns(_, _, _, _, _)
PackColumns(col, board49, heights, patterns, width) ==
    IF col = width THEN board49
    ELSE LET h == heights[col]
             pattern == BitAnd(patterns[col], ShiftLeft(1, h) - 1)
             col_code == ColCode(h, pattern)
         IN PackColumns(col + 1, BitOr(board49, ShiftLeft(col_code, 7 * col)),
                        heights, patterns, width)

moveseq_to_board49(ms, width, height) ==
    IF (width # 7 \/ height # 6) /\ ~(1 <= width /\ 1 <= height /\ height <= 63)
    THEN Raised("Unsupported width/height", None)
    ELSE LET r == Board49Loop(ms, 0, [c \in 0 .. width - 1 |-> 0],
                              [c \in 0 .. width - 1 |-> 0], width, height)
         IN IF r.raised # "none" THEN r
            ELSE Returned(PackColumns(0, 0, r.value.heights, r.value.patterns, width))

\* int.bit_length
RECURSIVE BitLength(_)
BitLength(n) == IF n = 0 THEN 0 ELSE 1 + BitLength(n \div 2)

\* line 288 of board49_to_board42: h = floor(log2(col_code + 1))
DecodeHeightOffByOne(col_code) == BitLength(col_code) - 1
DecodeHeight(col_code) == BitLength(col_code + 1) - 1

\* the loop of board49_to_board42 (lines 276-299)
RECURSIVE DecodeLoop(_, _, _, _, _)
DecodeLoop(board49, col, board, width, height) ==
    IF col = width THEN Returned(JoinBoard(board, width, height))
    ELSE LET mask7 == ShiftLeft(1, 7) - 1
             col_code == BitAnd(ShiftRight(board49, 7 * col), mask7)
             max_code == ShiftLeft(1, height + 1) - 2
         IN IF col_code > max_code THEN Raised("Invalid col_code", <<>>)
            ELSE LET h == DecodeHeight(col_code) IN
                 IF h > height THEN Raised("Invalid height", <<>>)
                 ELSE LET base == ShiftLeft(1, h) - 1
                          pattern == col_code - base
                          filled ==
                            [r \in 0 .. height - 1 |->
                              [c \in 0 .. width - 1 |->
                                IF c = col /\ height - 1 - r < h
                                THEN IF BitAnd(ShiftRight(pattern, height - 1 - r), 1) = 1
                                     THEN "o" ELSE "x"
                                ELSE board[r][c]]]
                      IN DecodeLoop(board49, col + 1, filled, width, height)

board49_to_board42(board49, width, height) ==
    IF board49 < 0 THEN Raised("board49 must be non-negative", <<>>)
    ELSE DecodeLoop(board49, 0, EmptyBoard(width, height), width, height)

----------------------------------------------------------------------------
(* The codec on its own: a move sequence is typed character by character,  *)
(* legal or not, and the three functions are applied to it.                *)

\* the characters typed: the legal columns, digits that are no column
\* (the first one, and "9"), and the characters around the digits ("/", ":")
ColumnChars == {Ord0 + c : c \in 0 .. Width - 1}
BadDigitChars == {Ord0 + Width, Ord9}
NonDigitChars == {Ord0 - 1, Ord9 + 1}

NotCalled == [raised |-> "none", msg |-> "not called", value |-> <<>>]

Codec(ms) ==
    LET e == moveseq_to_board49(ms, Width, Height) IN
    /\ moveseq' = ms
    /\ enc' = e
    /\ sim' = moveseq_to_board_42(ms, Width, Height)
    /\ dec' = IF e.raised = "none"
              THEN board49_to_board42(e.value, Width, Height)
              ELSE NotCalled

InitCodec ==
    /\ moveseq = <<>>
    /\ enc = moveseq_to_board49(<<>>, Width, Height)
    /\ sim = moveseq_to_board_42(<<>>, Width, Height)
    /\ dec = board49_to_board42(0, Width, Height)

PlayColumn ==
    /\ OnlyCodec
    /\ Len(moveseq) < MaxLen
    /\ \E ch \in ColumnChars : Codec(Append(moveseq, ch))

TypeBadDigit ==
    /\ OnlyCodec
    /\ Len(moveseq) < MaxLen
    /\ \E ch \in BadDigitChars : Codec(Append(moveseq, ch))

TypeNonDigit ==
    /\ OnlyCodec
    /\ Len(moveseq) < MaxLen
    /\ \E ch \in NonDigitChars : Codec(Append(moveseq, ch))

NextCodec == PlayColumn \/ TypeBadDigit \/ TypeNonDigit


\* stones in column c after the sequence ms
Stones(ms, c) == Cardinality({p \in 1 .. Len(ms) : ms[p] = Ord0 + c})

\* a legal move sequence: columns only, at most Height stones per column
Legal(ms) ==
    /\ \A p \in 1 .. Len(ms) : ms[p] \in ColumnChars
    /\ \A c \in 0 .. Width - 1 : Stones(ms, c) <= Height

----------------------------------------------------------------------------
(* Claims about the codec *)

\* C6: for every legal move sequence s, decoding the code of s gives the
\* board of the direct row/column simulation of s.
C6_RoundTrip ==
    Legal(moveseq) =>
        /\ enc.raised = "none"
        /\ sim.raised = "none"
        /\ dec.raised = "none"
        /\ dec.value = sim.value

\* a legal sequence that fills a column with stones of both players and
\* plays elsewhere too has been encoded and decoded back
C6_Witness ==
    /\ Legal(moveseq)
    /\ \E c \in 0 .. Width - 1 : Stones(moveseq, c) = Height
    /\ \E c \in 0 .. Width - 1 : Stones(moveseq, c) \in 1 .. Height - 1
    /\ dec.value = sim.value
    /\ \E n \in DOMAIN dec.value : dec.value[n] = "o"

\* C7: moveseq_to_board49 raises exactly when the sequence holds a non-digit
\* character, a digit that is no column, or a move into a full column; on
\* every legal sequence it returns a code.
C7_RaisesIffIllegal ==
    (enc.raised # "none") <=> ~Legal(moveseq)

\* a sequence of columns only has put one stone more than fits into a
\* column, and the call raised
C7_Witness ==
    /\ enc.raised = "ValueError"
    /\ enc.msg = "Illegal move: column is full"
    /\ \A p \in 1 .. Len(moveseq) : moveseq[p] \in ColumnChars

\* the legal move sequences of at most n moves
RECURSIVE LegalSeqs(_)
LegalSeqs(n) ==
    IF n = 0 THEN {<<>>}
    ELSE LET shorter == LegalSeqs(n - 1) IN
         shorter \cup
            {t \in {Append(s, ch) : s \in {u \in shorter : Len(u) = n - 1},
                                    ch \in ColumnChars} : Legal(t)}

\* the code and the board of every legal move sequence
CodeOf ==
    [s \in LegalSeqs(MaxLen) |-> moveseq_to_board49(s, Width, Height).value]
BoardOf ==
    [s \in LegalSeqs(MaxLen) |-> moveseq_to_board_42(s, Width, Height).value]

\* the 7-bit field of column c in a code
Field(board49, c) == BitAnd(ShiftRight(board49, 7 * c), ShiftLeft(1, 7) - 1)

\* C18: the code of a legal move sequence equals the code of another legal
\* move sequence exactly when the two produce the same board; the code is
\* below 2^(7 * Width) (2^49 on the 7-column board) and each 7-bit column
\* field is at most 2^(Height + 1) - 2 (126 for the height 6).
C18_Injective ==
    Legal(moveseq) =>
        /\ \A s \in LegalSeqs(MaxLen) :
              (CodeOf[s] = enc.value) <=> (BoardOf[s] = sim.value)
        /\ 0 <= enc.value /\ enc.value < ShiftLeft(1, 7 * Width)
        /\ \A c \in 0 .. Width - 1 :
              Field(enc.value, c) <= ShiftLeft(1, Height + 1) - 2

\* two different move sequences have reached one board and got one code,
\* and a sequence of the same length has another board and another code
C18_Witness ==
    /\ Legal(moveseq)
    /\ \E s \in LegalSeqs(MaxLen) :
          s # moveseq /\ BoardOf[s] = sim.value /\ CodeOf[s] = enc.value
    /\ \E s \in LegalSeqs(MaxLen) :
          Len(s) = Len(moveseq) /\ BoardOf[s] # sim.value
                                /\ CodeOf[s] # enc.value
----------------------------------------------------------------------------
(* The WDL oracle, an external process: a self-consistent oracle of a      *)
(* stacking game on the Width x Height board.  A position is terminal when *)
(* the board is full or the player who just moved has won; the oracle's    *)
(* parameters say which boards are won and which full boards are lost.     *)
(* wdl[c] is the negation of the child's value, a position's value is its  *)
(* terminal value or the maximum of its defined wdl entries.               *)

\* the "." token of a response: the column is no legal move
Absent == 2

\* the literal 42 of search: the number of cells
FullLen == Width * Height

Columns == 0 .. 6

Max2(a, b) == IF a >= b THEN a ELSE b
Min2(a, b) == IF a <= b THEN a ELSE b

LegalColumn(ms, c) == c < Width /\ Stones(ms, c) < Height

\* The oracle's own view of a position: the column heights, the number n of
\* stones, and a key that is the sum of the weights of the stones, the first
\* player's stones weighing 3^cell and the second player's twice that.  Two
\* move sequences that reach one board reach one key.
CellWeight(c, h, player) == (player + 1) * 3 ^ (c * Height + h)

RootPosition == [heights |-> [c \in 0 .. Width - 1 |-> 0], key |-> 0, n |-> 0]

Drop(pos, c) ==
    [heights |-> [pos.heights EXCEPT ![c] = @ + 1],
     key |-> pos.key + CellWeight(c, pos.heights[c], pos.n % 2),
     n |-> pos.n + 1]

RECURSIVE PositionOf(_, _)
PositionOf(ms, i) ==
    IF i = 0 THEN RootPosition
    ELSE Drop(PositionOf(ms, i - 1), ms[i] - Ord0)

OracleWon(o, pos) == pos.key % o.mod = o.res

OracleFullLoss(o, pos) == (pos.key \div 3) % 2 = o.par

OracleTerminal(o, pos) == pos.n = FullLen \/ OracleWon(o, pos)

RECURSIVE OracleValue(_, _)
RECURSIVE BestReply(_, _, _, _)

\* the maximum of the wdl entries of the columns c .. Width - 1, or best
BestReply(o, pos, c, best) ==
    IF c = Width \/ best = 1 THEN best
    ELSE IF pos.heights[c] >= Height THEN BestReply(o, pos, c + 1, best)
    ELSE BestReply(o, pos, c + 1, Max2(best, -OracleValue(o, Drop(pos, c))))

OracleValue(o, pos) ==
    IF pos.n = FullLen THEN (IF OracleFullLoss(o, pos) THEN -1 ELSE 0)
    ELSE IF OracleWon(o, pos) THEN -1
    ELSE BestReply(o, pos, 0, -1)

\* the parsed response to query(ms): (is_terminal, wdl_list)
OracleQuery(o, ms) ==
    LET pos == PositionOf(ms, Len(ms)) IN
    [terminal |-> OracleTerminal(o, pos),
     wdl |-> [c \in Columns |->
                IF c < Width /\ pos.heights[c] < Height
                THEN -OracleValue(o, Drop(pos, c))
                ELSE Absent]]

\* with mod = 1 no board is won: every game runs to the full board; with
\* mod = 13 and res = 6 the search of the root meets a position a second
\* time with another window
Oracles ==
    {o \in [mod : {1, 2, 3, 5, 7, 13}, res : 1 .. 6, par : {0, 1}] :
        /\ o.res < o.mod \/ (o.mod = 1 /\ o.res = 1)
        /\ o.mod = 13 => o.res = 6}

\* Oracles that answer well-formed lines that no game explains: one never
\* reports a terminal position, and offers column 0 with the value 0 on the
\* full board; the other reports each value with the opposite sign.
Liars ==
    {[mod |-> 1, res |-> 1, par |-> 0, lie |-> l] :
        l \in {"never_terminal", "negated"}}

LiarQuery(o, ms) ==
    LET r == OracleQuery(o, ms) IN
    IF o.lie = "negated"
    THEN [terminal |-> r.terminal,
          wdl |-> [c \in Columns |->
                     IF r.wdl[c] = Absent THEN Absent ELSE -r.wdl[c]]]
    ELSE [terminal |-> FALSE,
          wdl |-> IF Len(ms) = FullLen THEN [r.wdl EXCEPT ![0] = 0]
                                       ELSE r.wdl]

----------------------------------------------------------------------------
(* WdlServer: the handle of the oracle subprocess.  A line of the oracle's *)
(* output is the sequence of its tokens (strip and split done); readline   *)
(* returns a line, or the end of file once the child is gone.  The tokens  *)
(* are "-1", "0", "1", "." and "x", which is no number.                    *)

Line(toks) == [eof |-> FALSE, toks |-> toks]
EndOfFile == [eof |-> TRUE, toks |-> <<>>]

\* the token of a wdl entry in a compact response
Token(v) ==
    IF v = Absent THEN "." ELSE IF v = -1 THEN "-1" ELSE IF v = 0 THEN "0" ELSE "1"

\* the line the oracle answers query(ms) with
OracleLine(o, ms) ==
    LET resp == IF "lie" \in DOMAIN o THEN LiarQuery(o, ms)
                                      ELSE OracleQuery(o, ms) IN
    Line(<<IF resp.terminal THEN "1" ELSE "0">>
            \o [i \in 1 .. 7 |-> Token(resp.wdl[i - 1])])

\* int(t) succeeds
IsIntLiteral(t) == t \in {"-1", "0", "1"}

\* int(t)
IntOf(t) == IF t = "-1" THEN -1 ELSE IF t = "0" THEN 0 ELSE 1

_parse_compact_line(toks) ==
    IF Len(toks) # 8 THEN Raised("bad token count", <<>>)
    ELSE IF toks[1] \notin {"0", "1"} THEN Raised("bad terminal flag", <<>>)
    ELSE IF \E i \in 2 .. 8 : toks[i] # "." /\ ~IsIntLiteral(toks[i])
    THEN Raised("invalid literal for int()", <<>>)
    ELSE Returned([terminal |-> toks[1] = "1",
                   wdl |-> [c \in Columns |->
                              IF toks[c + 2] = "." THEN Absent
                              ELSE IntOf(toks[c + 2])]])

\* line 201 of query: the line is taken for the response
QueryAccepts(toks) == Len(toks) = 8 /\ toks[1] \in {"0", "1"}

\* one turn of the loop of query on the line readline returned: the query
\* raises, goes on to the next line ("continue"), or returns the parsed line
QueryStep(line) ==
    IF line.eof
    THEN [act |-> "raised", raised |-> "RuntimeError", value |-> <<>>]
    ELSE IF line.toks = <<>>
    THEN [act |-> "continue", raised |-> "none", value |-> <<>>]
    ELSE IF QueryAccepts(line.toks)
    THEN LET r == _parse_compact_line(line.toks) IN
         IF r.raised # "none"
         THEN [act |-> "raised", raised |-> r.raised, value |-> <<>>]
         ELSE [act |-> "returned", raised |-> "none", value |-> r.value]
    ELSE [act |-> "continue", raised |-> "none", value |-> <<>>]

NoLine == [line |-> Line(<<>>), act |-> "none"]

\* the lines an oracle may send that are no well-formed response: a blank
\* line, lines of 7 and of 9 tokens, a line whose flag is neither "0" nor
\* "1", and a line with a WDL token that is no number
OtherLines ==
    {Line(<<>>),
     Line(<<"0", ".", "0", ".", ".", ".", ".">>),
     Line(<<"0", ".", "0", ".", ".", ".", ".", ".", ".">>),
     Line(<<"x", ".", "0", ".", ".", ".", ".", ".">>),
     Line(<<"0", "x", "0", ".", ".", ".", ".", ".">>)}

\* srv.proc before and after WdlServer.start
NotStarted ==
    [started |-> FALSE, alive |-> FALSE, stdin |-> "none",
     signal |-> "none", reaped |-> FALSE]
Running ==
    [started |-> TRUE, alive |-> TRUE, stdin |-> "open",
     signal |-> "none", reaped |-> FALSE]

----------------------------------------------------------------------------
(* search.  Each active call is a frame; pc is the call's position:        *)
(* "enter" (line 364), "query" (line 380), "first" (line 396),             *)
(* "cut_ret" (line 400, the child called), "pv_ret" (line 412),            *)
(* "rest" (line 417), "rest_ret" (line 422).                               *)

\* the columns from left to right
MOVE_ORDERING_LeftToRight == <<0, 1, 2, 3, 4, 5, 6>>

\* line 360
MOVE_ORDERING == <<3, 2, 4, 1, 5, 0, 6>>

NoWdl == [c \in Columns |-> Absent]

\* what a returning call wrote to the table: nothing, or the record of its
\* board, of kind "terminal" (line 391), "cutoff" (line 406) or "exact"
\* (line 425); prior is what get(board) gave right before the write
NoWrite == [kind |-> "none", board |-> 0, prior |-> None]

NoRet == [set |-> FALSE, value |-> 0, wrote |-> NoWrite]

\* the frame of a call search(ms, alpha, beta); searched lists the columns
\* of the child calls it has made so far
Frame(ms, alpha, beta) ==
    [moveseq |-> ms, alpha |-> alpha, beta |-> beta, pc |-> "enter",
     board |-> 0, lb |-> -1, ub |-> 1, value |-> 0, wdl |-> NoWdl,
     first_move |-> None, idx |-> 0, searched |-> <<>>]

Top == stack[Len(stack)]
Callers == SubSeq(stack, 1, Len(stack) - 1)

\* the top call goes on at f
Goto(f) ==
    /\ stack' = Append(Callers, f)
    /\ ret' = NoRet
    /\ UNCHANGED <<err, tt>>

\* the top call calls search(ms, alpha, beta), and waits at f
Call(f, ms, alpha, beta) ==
    /\ stack' = Callers \o <<f, Frame(ms, alpha, beta)>>
    /\ ret' = NoRet
    /\ UNCHANGED <<err, tt>>

\* the top call returns v, leaving the table t, in which it wrote w
Return(v, t, w) ==
    /\ stack' = Callers
    /\ ret' = [set |-> TRUE, value |-> v, wrote |-> w]
    /\ tt' = t
    /\ UNCHANGED err

\* an exception leaves search: no frame handles it
Raise(e) ==
    /\ stack' = <<>>
    /\ ret' = NoRet
    /\ err' = e
    /\ UNCHANGED tt

\* TRANSPOSITION_TABLE.set(board, value), then return v
StoreAndReturn(board, value, v, kind) ==
    LET r == Set(tt, board, value) IN
    IF r.raised # "none" THEN Raise(r.raised)
    ELSE Return(v, r.t, [kind |-> kind, board |-> board,
                         prior |-> Get(tt, board)])

\* the two bounds stored in each other's place
PackBoundsSwapped(lb, ub) == (ub + 1) + ((lb + 1) * 16)

\* the upper bound packed one bit too low
PackBoundsNarrow(lb, ub) == (lb + 1) + ((ub + 1) * 8)

\* the packed bound record (lb, ub)
PackBounds(lb, ub) == (lb + 1) + ((ub + 1) * 16)

\* the record of a cutoff with the upper bound open
CutoffRecordUnbounded(value, ub) == PackBounds(value, 1)

\* line 406: the value as lower bound, the upper bound found by the probe
CutoffRecord(value, ub) == PackBounds(value, ub)

Defined(wdl) == {wdl[c] : c \in {d \in Columns : wdl[d] # Absent}}

\* max(x for x in wdl_list if x is not None)
MaxDefined(wdl) == CHOOSE v \in Defined(wdl) : \A w \in Defined(wdl) : w <= v

\* lines 364-378: encode, probe the table
Probe ==
    /\ OnlySearch
    /\ err = "none" /\ stack # <<>> /\ Top.pc = "enter"
    /\ UNCHANGED rx
    /\ LET f == Top
           e == moveseq_to_board49(f.moveseq, Width, Height)
           tt_value == Get(tt, e.value)
           lb == (tt_value % 16) - 1
           ub == (tt_value \div 16) - 1
       IN IF e.raised # "none" THEN Raise(e.raised)
          ELSE IF tt_value = None
          THEN Goto([f EXCEPT !.pc = "query", !.board = e.value])
          ELSE IF lb >= f.beta THEN Return(lb, tt, NoWrite)
          ELSE IF ub <= f.alpha THEN Return(ub, tt, NoWrite)
          ELSE Goto([f EXCEPT !.pc = "query", !.board = e.value,
                              !.lb = lb, !.ub = ub,
                              !.alpha = Max2(f.alpha, lb),
                              !.beta = Min2(f.beta, ub)])

\* lines 380-394: query the oracle, which answers; a terminal position is
\* stored and returned
Query ==
    /\ OnlySearch
    /\ err = "none" /\ stack # <<>> /\ Top.pc = "query" /\ proc.alive
    /\ \E f \in {Top} : \E line \in {OracleLine(oracle, Top.moveseq)} :
       \E resp \in {QueryStep(line).value} :
          IF resp.terminal
          THEN IF Len(f.moveseq) = FullLen
               THEN \E line2 \in {OracleLine(oracle,
                                   SubSeq(f.moveseq, 1, Len(f.moveseq) - 1))} :
                    \E parent \in {QueryStep(line2).value} :
                       /\ rx' = [line |-> line2, act |-> "returned"]
                       /\ IF Defined(parent.wdl) = {} THEN Raise("ValueError")
                          ELSE LET value == IF MaxDefined(parent.wdl) = 1
                                            THEN -1 ELSE 0
                               IN StoreAndReturn(f.board,
                                                 PackBounds(value, value), value,
                                                 "terminal")
               ELSE /\ rx' = [line |-> line, act |-> "returned"]
                    /\ StoreAndReturn(f.board, PackBounds(-1, -1), -1,
                                      "terminal")
          ELSE /\ rx' = [line |-> line, act |-> "returned"]
               /\ IF Defined(resp.wdl) = {} THEN Raise("ValueError")
                  ELSE Goto([f EXCEPT !.pc = "first", !.wdl = resp.wdl,
                                      !.value = MaxDefined(resp.wdl)])

\* the first column of MOVE_ORDERING, from position i on, that satisfies P
RECURSIVE FirstFrom(_, _, _, _)
FirstFrom(i, wdl, want, skip) ==
    IF i > Len(MOVE_ORDERING) THEN 0
    ELSE LET move == MOVE_ORDERING[i] IN
         IF move # skip /\ (IF want = Absent THEN wdl[move] # Absent
                                            ELSE wdl[move] = want)
         THEN i
         ELSE FirstFrom(i + 1, wdl, want, skip)

\* a cutoff only above beta
WillCutOffStrict(beta, value) == beta < value

\* line 396: a beta cutoff will occur
WillCutOff(beta, value) == beta <= value

\* a window that holds no value
NullWindowEmpty(alpha) == <<-alpha, -alpha>>

\* line 412: the null window (-alpha - 1, -alpha) of the first child
NullWindow(alpha) == <<-alpha - 1, -alpha>>

\* lines 397-400 and 408-412: call the first best child
CallFirst ==
    /\ OnlySearch
    /\ err = "none" /\ stack # <<>> /\ Top.pc = "first"
    /\ UNCHANGED rx
    /\ LET f == Top
           i == FirstFrom(1, f.wdl, f.value, None)
           move == MOVE_ORDERING[i]
           next_moveseq == Append(f.moveseq, Ord0 + move)
       IN IF WillCutOff(f.beta, f.value)
          THEN Call([f EXCEPT !.pc = "cut_ret", !.first_move = move,
                              !.searched = Append(@, move)],
                    next_moveseq, -f.beta, -f.alpha)
          ELSE Call([f EXCEPT !.pc = "pv_ret", !.first_move = move,
                              !.searched = Append(@, move)],
                    next_moveseq, NullWindow(f.alpha)[1], NullWindow(f.alpha)[2])

\* lines 400-406: the cutoff branch after its child returned
AfterCutChild ==
    /\ OnlySearch
    /\ err = "none" /\ stack # <<>> /\ Top.pc = "cut_ret" /\ ret.set
    /\ UNCHANGED rx
    /\ LET f == Top
           child_value == -ret.value
       IN IF ~(child_value = f.value) \/ ~(child_value >= f.beta)
          THEN Raise("AssertionError")
          ELSE StoreAndReturn(f.board, CutoffRecord(f.value, f.ub), f.value,
                              "cutoff")

\* lines 412-416: the PV branch after its first child returned
AfterFirstChild ==
    /\ OnlySearch
    /\ err = "none" /\ stack # <<>> /\ Top.pc = "pv_ret" /\ ret.set
    /\ UNCHANGED rx
    /\ LET f == Top
           child_value == -ret.value
       IN IF ~(child_value = f.value) \/ ~(child_value < f.beta)
          THEN Raise("AssertionError")
          ELSE Goto([f EXCEPT !.pc = "rest", !.idx = 1,
                              !.alpha = Max2(f.alpha, f.value)])

\* lines 417-426: call the next other child, or store the exact value and return
CallRest ==
    /\ OnlySearch
    /\ err = "none" /\ stack # <<>> /\ Top.pc = "rest"
    /\ UNCHANGED rx
    /\ LET f == Top
           i == FirstFrom(f.idx, f.wdl, Absent, f.first_move)
       IN IF i = 0
          THEN StoreAndReturn(f.board, PackBounds(f.value, f.value), f.value,
                              "exact")
          ELSE Call([f EXCEPT !.pc = "rest_ret", !.idx = i,
                              !.searched = Append(@, MOVE_ORDERING[i])],
                    Append(f.moveseq, Ord0 + MOVE_ORDERING[i]),
                    -f.beta, -f.alpha)

\* lines 422-423: another child returned
AfterRestChild ==
    /\ OnlySearch
    /\ err = "none" /\ stack # <<>> /\ Top.pc = "rest_ret" /\ ret.set
    /\ UNCHANGED rx
    /\ LET f == Top
           child_value == -ret.value
       IN IF ~(child_value <= f.alpha)
          THEN Raise("AssertionError")
          ELSE Goto([f EXCEPT !.pc = "rest", !.idx = f.idx + 1])

----------------------------------------------------------------------------
(* search called for the opening moves: -search(str(m), -1, 1), on an      *)
(* empty table first and then on the table the earlier calls left          *)

\* one slot for every key: the table of search never fills
SearchCap == (ShiftLeft(1, Height + 1) - 1) ^ Width

\* the hash of a board key is multiplicative: the multiplier 1 spreads the
\* keys, the other one sends them all to the few homes that are multiples of it
SearchHashes ==
    {[mul |-> m] : m \in {1, SearchCap \div (ShiftLeft(1, Height + 1) - 1)}}

InitSearch ==
    /\ tt = NewTable(SearchCap)
    /\ hash64 \in SearchHashes
    /\ oracle \in Oracles
    /\ ~OracleTerminal(oracle, RootPosition)
    /\ stack = <<>>
    /\ ret = NoRet
    /\ err = "none"
    /\ top = <<>>
    /\ main = "ready"
    /\ proc = Running
    /\ rx = NoLine

\* -search(str(m), -1, 1) for an opening move m that is legal at the root
CallSearch ==
    /\ UNCHANGED <<last, call, codecVars, oracle, hash64, main, proc>>
    /\ err = "none" /\ stack = <<>> /\ Len(top) < MaxCalls
    /\ \E m \in Columns :
        /\ LegalColumn(<<>>, m)
        /\ top' = Append(top, m)
        /\ stack' = <<Frame(<<Ord0 + m>>, -1, 1)>>
    /\ ret' = NoRet
    /\ UNCHANGED <<err, tt, rx>>

NextSearch ==
    \/ CallSearch
    \/ Probe
    \/ Query
    \/ CallFirst
    \/ AfterCutChild
    \/ AfterFirstChild
    \/ CallRest
    \/ AfterRestChild

\* a top-level call has returned
Finished == stack = <<>> /\ ret.set /\ err = "none" /\ top # <<>>

----------------------------------------------------------------------------
(* Claims about search *)

\* C8: for every self-consistent oracle and every opening move m legal at
\* the root, -search(str(m), -1, 1) is the wdl[m] the oracle reports at the
\* root, on an empty table and on a table earlier calls have written.
C8_OpeningMoveValue ==
    /\ err = "none"
    /\ Finished => -ret.value = OracleQuery(oracle, <<>>).wdl[top[Len(top)]]

\* a second call has returned on a table the first call has written, and
\* its answer came from a search below the opening move's node
C8_Witness ==
    /\ Finished
    /\ Len(top) = 2
    /\ tt.size > 2
    /\ -ret.value = OracleQuery(oracle, <<>>).wdl[top[2]]
    /\ -ret.value = 0

----------------------------------------------------------------------------
(* The program: the module-level statements (lines 353-360) and the main   *)
(* block (lines 429-460).  main is its position: "start" (line 353),       *)
(* "warmup" (line 356), "table" (line 358), "ready" (line 429),            *)
(* "searching" (line 432), "searched" (line 438), "close_poll" (line 211), *)
(* "close_wait" (line 213), "scan" (line 440), "finished", and "aborted"   *)
(* once an exception has ended the program.                                *)

\* lines 353-355: WdlServer.start
StartServer ==
    /\ OnlyRun
    /\ main = "start"
    /\ main' = "warmup"
    /\ proc' = Running
    /\ UNCHANGED <<tt, stack, ret, err, rx>>

\* line 356: srv.query(""), the oracle answers
Warmup ==
    /\ OnlyRun
    /\ main = "warmup" /\ err = "none" /\ proc.alive
    /\ \E line \in {OracleLine(oracle, <<>>)} :
        /\ QueryStep(line).act = "returned"
        /\ rx' = [line |-> line, act |-> "returned"]
    /\ main' = "table"
    /\ UNCHANGED <<tt, stack, ret, err, proc>>

\* a query is waiting for the oracle's line
InQuery ==
    /\ err = "none"
    /\ \/ main = "warmup"
       \/ stack # <<>> /\ Top.pc = "query"

\* lines 186-202: query reads a line that is not the response, or the end of
\* file of an oracle that is gone
QueryReadsOther ==
    /\ OnlyRun
    /\ InQuery
    /\ \E line \in (IF proc.alive THEN OtherLines ELSE {EndOfFile}) :
       \E d \in {QueryStep(line)} :
          /\ rx' = [line |-> line, act |-> d.act]
          /\ IF d.act = "raised"
             THEN stack' = <<>> /\ ret' = NoRet /\ err' = d.raised
             ELSE UNCHANGED <<stack, ret, err>>
    /\ UNCHANGED <<tt, main, proc>>

\* the oracle process ends: it crashed, it read the end of its input, or a
\* signal ended it
OracleExits ==
    /\ OnlyRun
    /\ proc.alive /\ main \notin {"aborted", "finished"}
    /\ proc' = [proc EXCEPT !.alive = FALSE]
    /\ UNCHANGED <<tt, stack, ret, err, rx, main>>

\* line 358
CreateTable ==
    /\ OnlyRun
    /\ main = "table"
    /\ tt' = NewTable(SearchCap)
    /\ main' = "ready"
    /\ UNCHANGED <<stack, ret, err, rx, proc>>

\* lines 429-432: search("", -1, 1) is called
BeginSearch ==
    /\ OnlyRun
    /\ main = "ready"
    /\ stack' = <<Frame(<<>>, -1, 1)>>
    /\ ret' = NoRet
    /\ main' = "searching"
    /\ UNCHANGED <<tt, err, rx, proc>>

\* lines 432-436: search has returned its value
EndSearch ==
    /\ OnlyRun
    /\ main = "searching" /\ err = "none" /\ stack = <<>> /\ ret.set
    /\ main' = "searched"
    /\ UNCHANGED <<tt, stack, ret, err, rx, proc>>

\* no statement of the program handles an exception: the program ends where
\* the exception was raised
UncaughtException ==
    /\ OnlyRun
    /\ err # "none" /\ main # "aborted"
    /\ main' = "aborted"
    /\ UNCHANGED <<tt, stack, ret, err, rx, proc>>

\* lines 438, 205-209: srv.close() closes the child's standard input
CloseStdin ==
    /\ OnlyRun
    /\ main = "searched"
    /\ proc' = [proc EXCEPT !.stdin = "closed"]
    /\ main' = "close_poll"
    /\ UNCHANGED <<tt, stack, ret, err, rx>>

\* lines 211-212: a child that has not ended is sent SIGTERM; poll reaps a
\* child that has
ClosePoll ==
    /\ OnlyRun
    /\ main = "close_poll"
    /\ proc' = IF proc.alive THEN [proc EXCEPT !.signal = "SIGTERM"]
                             ELSE [proc EXCEPT !.reaped = TRUE]
    /\ main' = "close_wait"
    /\ UNCHANGED <<tt, stack, ret, err, rx>>

\* lines 213-214: the child has ended within the 5 seconds, wait reaps it
CloseWait ==
    /\ OnlyRun
    /\ main = "close_wait" /\ ~proc.alive
    /\ proc' = [proc EXCEPT !.reaped = TRUE]
    /\ main' = "scan"
    /\ UNCHANGED <<tt, stack, ret, err, rx>>

\* lines 215-217: the wait timed out, the child is killed and reaped
CloseTimeout ==
    /\ OnlyRun
    /\ main = "close_wait" /\ proc.alive
    /\ proc' = [proc EXCEPT !.signal = "SIGKILL", !.alive = FALSE,
                            !.reaped = TRUE]
    /\ main' = "scan"
    /\ UNCHANGED <<tt, stack, ret, err, rx>>

\* lines 440-460: every entry of the table is decoded and counted
Scan ==
    /\ OnlyRun
    /\ main = "scan" /\ err = "none"
    /\ IF \E i \in Occupied(tt) :
            board49_to_board42(BitAnd(Slot(tt, i), KEY_MASK) - 1,
                               Width, Height).raised # "none"
       THEN err' = "ValueError" /\ main' = main
       ELSE err' = err /\ main' = "finished"
    /\ UNCHANGED <<tt, stack, ret, rx, proc>>

InitMain ==
    /\ tt = NewTable(1)
    /\ hash64 \in SearchHashes
    /\ oracle \in Oracles
    /\ ~OracleTerminal(oracle, RootPosition)
    /\ stack = <<>>
    /\ ret = NoRet
    /\ err = "none"
    /\ top = <<>>
    /\ main = "start"
    /\ proc = NotStarted
    /\ rx = NoLine

\* the program with an oracle of either kind
InitRun ==
    /\ tt = NewTable(1)
    /\ hash64 = [mul |-> 1]
    /\ oracle \in {o \in Oracles : o.mod = 3 /\ o.par = 0} \cup Liars
    /\ ~OracleTerminal(oracle, RootPosition)
    /\ stack = <<>>
    /\ ret = NoRet
    /\ err = "none"
    /\ top = <<>>
    /\ main = "start"
    /\ proc = NotStarted
    /\ rx = NoLine

NextMain ==
    \/ StartServer
    \/ Warmup
    \/ QueryReadsOther
    \/ OracleExits
    \/ CreateTable
    \/ BeginSearch
    \/ Probe
    \/ Query
    \/ CallFirst
    \/ AfterCutChild
    \/ AfterFirstChild
    \/ CallRest
    \/ AfterRestChild
    \/ EndSearch
    \/ UncaughtException
    \/ CloseStdin
    \/ ClosePoll
    \/ CloseWait
    \/ CloseTimeout
    \/ Scan

----------------------------------------------------------------------------
(* Claims about the oracle handle and the end of the program *)

\* a non-blank line that is no well-formed response: its token count is not
\* 8, or its flag is neither "0" nor "1", or one of its WDL tokens is
\* neither "." nor a number
Malformed(line) ==
    /\ ~line.eof
    /\ line.toks # <<>>
    /\ \/ Len(line.toks) # 8
       \/ line.toks[1] \notin {"0", "1"}
       \/ \E i \in 2 .. Len(line.toks) :
            line.toks[i] # "." /\ ~IsIntLiteral(line.toks[i])

\* C9: when query has read a non-blank line with a token count other than
\* 8, a flag that is neither "0" nor "1" or an unparseable WDL token, query
\* has raised an error: it has not skipped the line to wait for another one.
C9_MalformedLineAborts ==
    (rx.act # "none" /\ Malformed(rx.line)) => rx.act = "raised"

\* C10: when the program has ended by an exception after the oracle
\* subprocess was started, the oracle's standard input has been closed and
\* the child has been reaped.
C10_AbortRunsShutdown ==
    (main = "aborted" /\ proc.started) =>
        (proc.stdin = "closed" /\ proc.reaped)

\* C13: every call of search made while search("", -1, 1) is evaluated, the
\* calls on positions whose table entry has narrowed the caller's window
\* included, is entered with alpha and beta in {-1, 0, 1} and alpha < beta.
C13_WindowOnEntry ==
    (stack # <<>> /\ Top.pc = "enter") =>
        /\ Top.alpha \in {-1, 0, 1}
        /\ Top.beta \in {-1, 0, 1}
        /\ Top.alpha < Top.beta

\* a call is entered from a caller whose window the table probe has narrowed
C13_Witness ==
    /\ main = "searching"
    /\ Len(stack) >= 2
    /\ Top.pc = "enter"
    /\ Top.alpha < Top.beta
    /\ LET caller == stack[Len(stack) - 1] IN
          caller.lb > -1 \/ caller.ub < 1

\* C14: with a self-consistent oracle no assert of search fails while
\* search("", -1, 1) is evaluated: whenever a child call has returned, its
\* negated result is the node's value v and >= beta in the cutoff branch, v
\* and < beta after the null-window call, and <= alpha for every other child.
C14_NoAssertFails ==
    /\ err # "AssertionError"
    /\ (stack # <<>> /\ ret.set) =>
          /\ Top.pc = "cut_ret" =>
                (-ret.value = Top.value /\ -ret.value >= Top.beta)
          /\ Top.pc = "pv_ret" =>
                (-ret.value = Top.value /\ -ret.value < Top.beta)
          /\ Top.pc = "rest_ret" => -ret.value <= Top.alpha

\* a child other than the first has returned, on a table that holds
\* entries, and its negated result is exactly the caller's alpha: the last
\* assert holds at its boundary
C14_Witness ==
    /\ main = "searching"
    /\ stack # <<>> /\ ret.set
    /\ Top.pc = "rest_ret"
    /\ -ret.value = Top.alpha
    /\ tt.size > 0

\* C15: every record search has written to the table (for a terminal
\* position, after a cutoff, after a full search) decodes as
\* lb = value % 16 - 1 and ub = value // 16 - 1 with -1 <= lb <= ub <= 1.
C15_StoredBoundsOrdered ==
    \A i \in DOMAIN tt.slots :
        LET value == ShiftRight(Slot(tt, i), VAL_SHIFT)
            lb == (value % 16) - 1
            ub == (value \div 16) - 1
        IN -1 <= lb /\ lb <= ub /\ ub <= 1

\* the table holds a record of each kind: an exact loss as terminal
\* positions get, a lower bound below its upper bound as a cutoff leaves,
\* and an exact draw or win
C15_Witness ==
    /\ stack = <<>> /\ ret.set
    /\ \E i \in Occupied(tt) :
          ShiftRight(Slot(tt, i), VAL_SHIFT) = PackBounds(-1, -1)
    /\ \E i \in Occupied(tt) : \E lb \in {0, 1} : \E ub \in {0, 1} :
          lb < ub /\ ShiftRight(Slot(tt, i), VAL_SHIFT) = PackBounds(lb, ub)
    /\ \E i \in Occupied(tt) : \E v \in {0, 1} :
          ShiftRight(Slot(tt, i), VAL_SHIFT) = PackBounds(v, v)

\* the children the claim names for a node with the responses wdl, the
\* value v and the upper window bound beta
ClaimedOrder == <<3, 2, 4, 1, 5, 0, 6>>
ExpectedChildren(wdl, v, beta) ==
    LET best == SelectSeq(ClaimedOrder, LAMBDA c : wdl[c] = v)[1]
        others == SelectSeq(ClaimedOrder,
                            LAMBDA c : c # best /\ wdl[c] # Absent)
    IN IF beta <= v THEN <<best>> ELSE <<best>> \o others

IsPrefix(s, t) == Len(s) <= Len(t) /\ SubSeq(t, 1, Len(s)) = s

\* the positions of a call after its oracle response
NodePcs == {"first", "cut_ret", "pv_ret", "rest", "rest_ret"}

\* the child calls a node has made so far are the beginning of the claimed
\* list, the call it waits for is the last of them, and the first child of
\* a node without cutoff gets a null window
C16_SearchedSoFar ==
    \A k \in 1 .. Len(stack) :
        LET f == stack[k] IN
        /\ f.pc \notin NodePcs => f.searched = <<>>
        /\ f.pc \in NodePcs =>
              /\ IsPrefix(f.searched, ExpectedChildren(f.wdl, f.value, f.beta))
              /\ \A j \in 1 .. Len(f.searched) : f.wdl[f.searched[j]] # Absent
        /\ k < Len(stack) =>
              /\ f.pc \in {"cut_ret", "pv_ret", "rest_ret"}
              /\ stack[k + 1].moveseq =
                    Append(f.moveseq, Ord0 + f.searched[Len(f.searched)])
              /\ (f.pc = "pv_ret" /\ stack[k + 1].pc = "enter") =>
                    stack[k + 1].beta = stack[k + 1].alpha + 1

\* a step in which a node's call writes the table or returns is taken when
\* the node has made all the claimed child calls, and it ends the call
C16_WriteStep ==
    (/\ stack # <<>> /\ Top.pc \in NodePcs
     /\ tt' # tt \/ (Len(stack') < Len(stack) /\ err' = "none"))
        => /\ Top.searched = ExpectedChildren(Top.wdl, Top.value, Top.beta)
           /\ stack' = Callers

\* C16: a non-terminal node the table probe has not answered searches, if
\* beta <= v, exactly one child, the first column in the order 3,2,4,1,5,0,6
\* whose wdl is v; otherwise that column first with a null window and then
\* every other column with a defined wdl once, in that order; no column
\* without wdl; and its table entry is written after all these calls.
C16_ChildOrder == []C16_SearchedSoFar /\ [][C16_WriteStep]_vars

\* a node without cutoff has searched column 0 first, then column 1, and is
\* about to write its entry
C16_Witness ==
    /\ main = "searching"
    /\ stack # <<>> /\ Top.pc = "rest"
    /\ Top.searched = <<0, 1>>
    /\ Top.searched = ExpectedChildren(Top.wdl, Top.value, Top.beta)
    /\ FirstFrom(Top.idx, Top.wdl, Absent, Top.first_move) = 0

\* every call on the stack holds its caller's move sequence and one move
\* more; a call that has encoded its move sequence holds at most as many
\* moves as the board has cells, and so does every call when the oracle is
\* self-consistent
C17_DepthBounded ==
    \A k \in 1 .. Len(stack) :
        LET f == stack[k] IN
        /\ k > 1 =>
              /\ Len(f.moveseq) = Len(stack[k - 1].moveseq) + 1
              /\ SubSeq(f.moveseq, 1, Len(f.moveseq) - 1) = stack[k - 1].moveseq
        /\ f.pc # "enter" => Len(f.moveseq) <= FullLen
        /\ "lie" \notin DOMAIN oracle => Len(f.moveseq) <= FullLen

\* search ends by an exception only when the oracle is not self-consistent
\* or the line read last was no response
C17_NormalCompletion ==
    err # "none" => ("lie" \in DOMAIN oracle \/ rx.act = "raised")

Lb(value) == (value % 16) - 1
Ub(value) == (value \div 16) - 1

\* C20: when search has written the record (lb1, ub1) of a board that held
\* (lb0, ub0), then lb0 <= lb1 and ub1 <= ub0, and an exact record
\* (lb0 = ub0) is left as it was; the record written after a cutoff has
\* ub = +1 when the board had none, and the ub of the record it had otherwise.
C20_BoundsNeverWiden ==
    (ret.set /\ ret.wrote.kind # "none") =>
        LET v0 == ret.wrote.prior
            v1 == Get(tt, ret.wrote.board)
        IN /\ v1 # None
           /\ v0 # None =>
                 /\ Lb(v0) <= Lb(v1)
                 /\ Ub(v1) <= Ub(v0)
                 /\ Lb(v0) = Ub(v0) => v1 = v0
           /\ ret.wrote.kind = "cutoff" =>
                 Ub(v1) = (IF v0 = None THEN 1 ELSE Ub(v0))

\* a cutoff has just been written over a record whose upper bound was below
\* +1, and the write has kept that bound
C20_Witness ==
    /\ ret.set
    /\ ret.wrote.kind = "cutoff"
    /\ ret.wrote.prior # None
    /\ Ub(ret.wrote.prior) < 1
    /\ Ub(Get(tt, ret.wrote.board)) = Ub(ret.wrote.prior)

\* C11: close() closes the child's standard input, then waits for the child
\* to end on its own, and sends a termination signal only when that wait
\* has expired: when the wait begins no signal has been sent, and when
\* close() has returned the input is closed and the child is reaped.
C11_CloseOrder ==
    /\ main = "close_wait" => proc.signal = "none"
    /\ main \in {"scan", "finished"} =>
          (proc.stdin = "closed" /\ proc.reaped)

----------------------------------------------------------------------------
(* Specifications: each runs one part of the program, the rest stands idle *)

TTIdle ==
    /\ tt = NewTable(1)
    /\ hash64 = [mul |-> 0]
    /\ last = <<>>
    /\ call = NoCall

CodecIdle ==
    /\ moveseq = <<>>
    /\ enc = NotCalled
    /\ sim = NotCalled
    /\ dec = NotCalled

SearchIdle ==
    /\ oracle = [mod |-> 1, res |-> 1, par |-> 0]
    /\ stack = <<>>
    /\ ret = NoRet
    /\ err = "none"
    /\ top = <<>>
    /\ main = "ready"
    /\ proc = NotStarted
    /\ rx = NoLine

InitSpecTT == InitTT /\ CodecIdle /\ SearchIdle
SpecTT == InitSpecTT /\ [][NextTT]_vars

InitSpecTTFull == InitTTFull /\ CodecIdle /\ SearchIdle
SpecTTFull == InitSpecTTFull /\ [][NextTT]_vars

InitSpecCodec == InitCodec /\ TTIdle /\ SearchIdle
SpecCodec == InitSpecCodec /\ [][NextCodec]_vars

InitSpecSearch ==
    /\ InitSearch /\ CodecIdle
    /\ last = <<>>
    /\ call = NoCall
SpecSearch == InitSpecSearch /\ [][NextSearch]_vars

InitSpecMain ==
    /\ InitMain /\ CodecIdle
    /\ last = <<>>
    /\ call = NoCall
SpecMain == InitSpecMain /\ [][NextMain]_vars

\* The statements of search are executed one after the other; the response
\* to a query arrives while the oracle runs, and the end of file once it
\* has ended.  SearchStep can be taken in exactly the states of
\* SearchStepEnabled, and its weak fairness is written with that condition.
SearchStep ==
    \/ Probe
    \/ Query
    \/ CallFirst
    \/ AfterCutChild
    \/ AfterFirstChild
    \/ CallRest
    \/ AfterRestChild
SearchStepEnabled ==
    /\ err = "none" /\ stack # <<>>
    /\ Top.pc = "query" => proc.alive
ReadsEndOfFile == QueryReadsOther /\ ~proc.alive
SearchProgress ==
    /\ []<>(~SearchStepEnabled) \/ []<><<SearchStep>>_vars
    /\ WF_vars(ReadsEndOfFile)

InitSpecRun ==
    /\ InitRun /\ CodecIdle
    /\ last = <<>>
    /\ call = NoCall
SpecRun == InitSpecRun /\ [][NextMain]_vars /\ SearchProgress

====
